---- MODULE Spec2Model ----
(***************************************************************************)
(* SquishyID (src/src/lib.rs): a positional-notation codec between u64     *)
(* values and strings over a caller-supplied key of unique characters.     *)
(*                                                                         *)
(* A string is a sequence of characters; a character is a one-letter       *)
(* string.  Vec<char> indices are zero-based in the source and one-based   *)
(* here (positions_to_characters[p + 1] is the source's [p]); the values   *)
(* stored in characters_to_positions stay zero-based as in the source.     *)
(*                                                                         *)
(* The u64 type is modelled as the unsigned integers of WordBits bits:     *)
(* every checked operation overflows above U64_MAX = 2^WordBits - 1.       *)
(* `position as u32` (line 126) is lossless: the checked power of a        *)
(* base >= 2 is None at a position no greater than the word width, which   *)
(* ends the loop long before a position reaches 2^32.                      *)
(***************************************************************************)
EXTENDS Integers, Sequences, FiniteSets, TLC

\* ---------------------------------------------------------------- bounds
\* width of the unsigned integer type standing for u64
WordBits == 4
\* longest key handed to new
MaxKeyLen == 3
\* longest text handed to decode
MaxTextLen == 6

U64_MAX == 2^WordBits - 1

\* characters a key is drawn from
KeyChars == {"a", "b", "c"}
\* characters a text is drawn from: "x" is in no key
TextChars == KeyChars \cup {"x"}

SeqsUpTo(S, n) == UNION {[1..k -> S] : k \in 0..n}

Keys == SeqsUpTo(KeyChars, MaxKeyLen)
Texts == SeqsUpTo(TextChars, MaxTextLen)

\* Option<u64>::None of the checked operations
None == -1

\* ------------------------------------------------------------ SquishyID::new
\* Insert storing one-based positions
Insert_OneBased(map, character, position) ==
  [c \in (DOMAIN map) \cup {character} |->
      IF c = character THEN position + 1 ELSE map[c]]

\* HashMap::insert (line 68): adds or overwrites the entry of character
Insert(map, character, position) ==
  [c \in (DOMAIN map) \cup {character} |->
      IF c = character THEN position ELSE map[c]]

NoCodec(tag) ==
  [tag |-> tag, length |-> 0,
   characters_to_positions |-> <<>>,
   positions_to_characters |-> <<>>]

\* the for loop of lines 66-73, entered with the next zero-based position and
\* the map built so far; lines 75-79 once the loop is over
RECURSIVE NewLoop(_, _, _)
NewLoop(chars, position, map) ==
  IF position >= Len(chars)
  THEN [tag |-> "Ok", length |-> Len(chars),
        characters_to_positions |-> map,
        positions_to_characters |-> chars]
  ELSE LET character == chars[position + 1]
       IN IF character \in DOMAIN map
          THEN NoCodec("DuplicateCharacter")
          ELSE NewLoop(chars, position + 1, Insert(map, character, position))

\* New accepting a key of one character
New_MinOne(k) ==
  IF Len(k) < 1
  THEN NoCodec("TooShort")
  ELSE NewLoop(k, 0, <<>>)

New(k) ==
  IF Len(k) < 2
  THEN NoCodec("TooShort")
  ELSE NewLoop(k, 0, <<>>)

\* --------------------------------------------------------- SquishyID::encode
\* the digit taken modulo one more than the base
EncodePosition_OffByOne(len, dec) == dec % (len + 1)

\* line 93
EncodePosition(len, dec) == dec % len

\* line 95
EncodeQuotient(len, dec) == dec \div len

RECURSIVE Reverse(_)
Reverse(s) == IF s = <<>> THEN <<>> ELSE Append(Reverse(Tail(s)), Head(s))

\* the loop of lines 92-100 run to its end, then line 102
RECURSIVE EncodeLoopAll(_, _, _)
EncodeLoopAll(self, dec, enc) ==
  LET position == EncodePosition(self.length, dec)
      enc2 == Append(enc, self.positions_to_characters[position + 1])
      dec2 == EncodeQuotient(self.length, dec)
  IN IF dec2 = 0 THEN Reverse(enc2) ELSE EncodeLoopAll(self, dec2, enc2)

Encode(self, v) == EncodeLoopAll(self, v, <<>>)

\* --------------------------------------------------------- SquishyID::decode
\* u64::checked_pow (line 126)
RECURSIVE CheckedPow(_, _)
CheckedPow(b, e) ==
  IF e = 0 THEN 1
  ELSE LET r == CheckedPow(b, e - 1)
       IN IF r = None THEN None
          ELSE IF r * b > U64_MAX THEN None ELSE r * b

\* Option::and_then with u64::checked_mul (line 127)
CheckedMul(a, factor) ==
  IF a = None THEN None
  ELSE IF a * factor > U64_MAX THEN None ELSE a * factor

\* the addition wrapping around instead of reporting the overflow
CheckedAdd_Wrapping(a, dec) ==
  IF a = None THEN None ELSE (a + dec) % (U64_MAX + 1)

\* the addition refusing the largest value itself
CheckedAdd_Inclusive(a, dec) ==
  IF a = None THEN None
  ELSE IF a + dec >= U64_MAX THEN None ELSE a + dec

\* Option::and_then with u64::checked_add (line 128)
CheckedAdd(a, dec) ==
  IF a = None THEN None
  ELSE IF a + dec > U64_MAX THEN None ELSE a + dec

Ok(v) == [tag |-> "Ok", value |-> v]
Err(tag) == [tag |-> tag, value |-> 0]

\* the for loop of lines 119-133 over the reversed text, then line 135
RECURSIVE DecodeLoop(_, _, _, _)
DecodeLoop(self, rev, position, dec) ==
  IF position >= Len(rev)
  THEN Ok(dec)
  ELSE LET character == rev[position + 1]
       IN IF character \notin DOMAIN self.characters_to_positions
          THEN Err("UnknownCharacter")
          ELSE LET factor == self.characters_to_positions[character]
                   bigger_decoded ==
                     CheckedAdd(CheckedMul(CheckedPow(self.length, position),
                                           factor), dec)
               IN IF bigger_decoded = None
                  THEN Err("Overflow")
                  ELSE DecodeLoop(self, rev, position + 1, bigger_decoded)

\* decode without the test of lines 113-115
Decode_NoEmptyCheck(self, enc) == DecodeLoop(self, Reverse(enc), 0, 0)

Decode(self, enc) ==
  IF Len(enc) = 0
  THEN Err("EmptyInput")
  ELSE DecodeLoop(self, Reverse(enc), 0, 0)

\* -------------------------------------------------------------- the program
VARIABLES
  key,                      \* the key handed to new
  status,                   \* "none" before new, then the outcome of new
  length,                   \* SquishyID.length
  characters_to_positions,  \* SquishyID.characters_to_positions
  positions_to_characters,  \* SquishyID.positions_to_characters
  pc,                       \* "idle", or the place of a running encode
  op,                       \* the call whose result the caller holds:
                            \* "none", "new", "encode", "decode"
  value,                    \* argument of the latest encode
  decoded,                  \* encode's local `decoded`
  encoded,                  \* encode's local `encoded`
  encRet,                   \* string returned by the latest encode
  text,                     \* argument of the latest decode
  decRet                    \* result of the latest decode

codec == <<length, characters_to_positions, positions_to_characters>>
vars == <<key, status, length, characters_to_positions,
          positions_to_characters, pc, op, value, decoded, encoded, encRet,
          text, decRet>>

self == [length |-> length,
         characters_to_positions |-> characters_to_positions,
         positions_to_characters |-> positions_to_characters]

NoRet == [tag |-> "None", value |-> 0]

Init ==
  /\ key = <<>>
  /\ status = "none"
  /\ length = 0
  /\ characters_to_positions = <<>>
  /\ positions_to_characters = <<>>
  /\ pc = "idle"
  /\ op = "none"
  /\ value = 0
  /\ decoded = 0
  /\ encoded = <<>>
  /\ encRet = <<>>
  /\ text = <<>>
  /\ decRet = NoRet

\* SquishyID::new(key)
NewCall ==
  /\ status = "none"
  /\ \E k \in Keys :
       LET r == New(k)
       IN /\ key' = k
          /\ status' = r.tag
          /\ length' = r.length
          /\ characters_to_positions' = r.characters_to_positions
          /\ positions_to_characters' = r.positions_to_characters
  /\ op' = "new"
  /\ UNCHANGED <<pc, value, decoded, encoded, encRet, text, decRet>>

\* the caller holds a codec and no result of an earlier call
Ready == status = "Ok" /\ pc = "idle" /\ op \in {"new", "none"}

\* encode with the loop test ahead of the first iteration
EncodeCall_WhileLoop ==
  /\ Ready
  /\ \E v \in 0..U64_MAX :
       /\ value' = v
       /\ decoded' = v
       /\ pc' = IF v = 0 THEN "return" ELSE "loop"
  /\ encoded' = <<>>
  /\ op' = "encode"
  /\ UNCHANGED <<key, status, codec, encRet, text, decRet>>

\* encode is entered: lines 89-90
EncodeCall ==
  /\ Ready
  /\ \E v \in 0..U64_MAX :
       /\ value' = v
       /\ decoded' = v
  /\ encoded' = <<>>
  /\ op' = "encode"
  /\ pc' = "loop"
  /\ UNCHANGED <<key, status, codec, encRet, text, decRet>>

\* one iteration of the loop of lines 92-100; the remainder by zero of line 93
\* and an index outside positions_to_characters at line 94 panic
EncodeLoop ==
  /\ pc = "loop"
  /\ IF length = 0
     THEN /\ pc' = "panic"
          /\ UNCHANGED <<decoded, encoded>>
     ELSE LET position == EncodePosition(length, decoded)
          IN IF position + 1 \notin DOMAIN positions_to_characters
             THEN /\ pc' = "panic"
                  /\ UNCHANGED <<decoded, encoded>>
             ELSE /\ encoded' =
                       Append(encoded, positions_to_characters[position + 1])
                  /\ decoded' = EncodeQuotient(length, decoded)
                  /\ pc' = IF decoded' = 0 THEN "return" ELSE "loop"
  /\ UNCHANGED <<key, status, codec, op, value, encRet, text, decRet>>

\* encode returning the digits least significant first
EncodeReturn_NoRev ==
  /\ pc = "return"
  /\ encRet' = encoded
  /\ pc' = "idle"
  /\ UNCHANGED <<key, status, codec, op, value, decoded, encoded, text, decRet>>

\* line 102
EncodeReturn ==
  /\ pc = "return"
  /\ encRet' = Reverse(encoded)
  /\ pc' = "idle"
  /\ UNCHANGED <<key, status, codec, op, value, decoded, encoded, text, decRet>>

\* SquishyID::decode(encoded)
DecodeCall ==
  /\ Ready
  /\ \E t \in Texts :
       /\ text' = t
       /\ decRet' = Decode(self, t)
  /\ op' = "decode"
  /\ UNCHANGED <<key, status, codec, pc, value, decoded, encoded, encRet>>

\* the caller is done with the value a call returned (a temporary of the
\* calling statement, as in lines 175-176) and keeps the codec for more calls
Drop ==
  /\ pc = "idle"
  /\ op \in {"encode", "decode"}
  /\ op' = "none"
  /\ value' = 0
  /\ decoded' = 0
  /\ encoded' = <<>>
  /\ encRet' = <<>>
  /\ text' = <<>>
  /\ decRet' = NoRet
  /\ UNCHANGED <<key, status, codec, pc>>

Next ==
  \/ NewCall
  \/ EncodeCall
  \/ EncodeLoop
  \/ EncodeReturn
  \/ DecodeCall
  \/ Drop

Spec == Init /\ [][Next]_vars

\* a started encode keeps running: it is one synchronous call
FairSpec == Spec /\ WF_vars(EncodeLoop) /\ WF_vars(EncodeReturn)

\* --------------------------------------------- vocabulary of the properties
Range(s) == {s[i] : i \in DOMAIN s}

\* every character of s is a character of the key
AllKeyChars(s) == \A i \in DOMAIN s : s[i] \in Range(key)

\* the digit value of a key character c: its zero-based place in the key
KeyIndex(c) == CHOOSE i \in 0..(Len(key) - 1) : key[i + 1] = c

\* the mathematical base-Len(key) value of s, most significant digit first
RECURSIVE ValueOf(_)
ValueOf(s) ==
  IF s = <<>> THEN 0
  ELSE ValueOf(SubSeq(s, 1, Len(s) - 1)) * Len(key) + KeyIndex(s[Len(s)])

\* s has no superfluous leading zero-digit
Canonical(s) == s # <<>> /\ (Len(s) = 1 \/ s[1] # key[1])

\* s without its superfluous leading zero-digits
RECURSIVE Strip(_)
Strip(s) == IF Len(s) > 1 /\ s[1] = key[1] THEN Strip(Tail(s)) ELSE s

HasDuplicate(k) == \E i, j \in DOMAIN k : i # j /\ k[i] = k[j]

EncodeReturned == op = "encode" /\ pc = "idle"
DecodeReturned == op = "decode"

\* ------------------------------------------------------------------ claims
\* C1: for every codec built by a successful new and every value v,
\* decode(encode(v)) succeeds and returns exactly v.
C1_RoundTrip ==
  EncodeReturned => Decode(self, encRet) = Ok(value)

C1_Witness ==
  /\ EncodeReturned
  /\ value = U64_MAX
  /\ Len(encRet) > 1
  /\ Decode(self, encRet) = Ok(U64_MAX)

\* C2 (as stated): for every non-empty string s of key characters whose value
\* fits in u64, whatever its length and its number of leading zero-digits,
\* decode(s) succeeds and encode(decode(s)) is s without its superfluous
\* leading zero-digits, hence equal to s exactly when s is canonical.
C2_CanonicalRoundTrip ==
  (DecodeReturned /\ text # <<>> /\ AllKeyChars(text)
     /\ ValueOf(text) <= U64_MAX)
  => /\ decRet.tag = "Ok"
     /\ Encode(self, decRet.value) = Strip(text)
     /\ (Encode(self, decRet.value) = text <=> Canonical(text))

\* C3: on a non-empty string of key characters, decode fails with Overflow
\* whenever the value of the string exceeds the largest u64, and a number it
\* returns is the exact value of the string.
C3_NoSilentWrap ==
  (DecodeReturned /\ text # <<>> /\ AllKeyChars(text))
  => /\ (ValueOf(text) > U64_MAX => decRet.tag = "Overflow")
     /\ (decRet.tag = "Ok" => decRet.value = ValueOf(text))

C3_Witness ==
  /\ DecodeReturned
  /\ text # <<>>
  /\ AllKeyChars(text)
  /\ Canonical(text)
  /\ ValueOf(text) = U64_MAX + 1
  /\ decRet.tag = "Overflow"

\* C4 (as stated): decode of a non-empty text holding a character that is not
\* in the key, at any place, fails with UnknownCharacter.
C4_UnknownCharacter ==
  (DecodeReturned /\ text # <<>> /\ ~AllKeyChars(text))
  => decRet.tag = "UnknownCharacter"

\* C5: new fails with TooShort exactly on keys of 0 or 1 characters, with
\* DuplicateCharacter exactly on keys of 2 or more characters with a repeated
\* one, and succeeds exactly on keys of 2 or more pairwise distinct
\* characters; one of the three happens for every key.
C5_KeyValidation ==
  status # "none"
  => /\ status \in {"TooShort", "DuplicateCharacter", "Ok"}
     /\ (status = "TooShort" <=> Len(key) < 2)
     /\ (status = "DuplicateCharacter" <=> (Len(key) >= 2 /\ HasDuplicate(key)))
     /\ (status = "Ok" <=> (Len(key) >= 2 /\ ~HasDuplicate(key)))

C5_Witness ==
  /\ status = "DuplicateCharacter"
  /\ key = <<"a", "b", "a">>

\* C6: encode(0) is the one-character string key[0]; for v > 0 the first
\* character of encode(v) is not key[0] and its digits weighted by the powers
\* of the base sum to v; no other value encodes to the same string.
C6_CanonicalEncoding ==
  EncodeReturned
  => /\ (value = 0 => encRet = <<key[1]>>)
     /\ (value > 0 => /\ encRet # <<>>
                      /\ encRet[1] # key[1]
                      /\ AllKeyChars(encRet)
                      /\ ValueOf(encRet) = value)
     /\ \A w \in 0..U64_MAX : w # value => Encode(self, w) # encRet

C6_Witness ==
  /\ EncodeReturned
  /\ value > 0
  /\ Len(encRet) >= 3
  /\ encRet[Len(encRet)] = key[1]

\* C7: encode never panics: in every iteration the base is at least 2 and the
\* digit is an index of positions_to_characters; the remaining value strictly
\* decreases from one iteration to the next, the loop ends, and the string
\* returned is non-empty and made of key characters.
C7_EncodeTotal ==
  /\ [](/\ pc # "panic"
        /\ (pc = "loop"
              => /\ length >= 2
                 /\ EncodePosition(length, decoded) \in 0..(length - 1)
                 /\ EncodePosition(length, decoded) + 1
                      \in DOMAIN positions_to_characters)
        /\ (EncodeReturned => encRet # <<>> /\ AllKeyChars(encRet)))
  /\ [][(pc = "loop" /\ pc' = "loop") => decoded' < decoded]_vars
  /\ (pc = "loop" ~> EncodeReturned)

C7_Witness ==
  /\ pc = "loop"
  /\ value = U64_MAX
  /\ Len(encoded) >= 2

\* C8: decode of the empty string fails with EmptyInput, and decode of a text
\* with at least one character ends in a number, UnknownCharacter or Overflow.
C8_EmptyInput ==
  DecodeReturned
  => /\ (text = <<>> => decRet.tag = "EmptyInput")
     /\ (text # <<>> => decRet.tag \in {"Ok", "UnknownCharacter", "Overflow"})

C8_Witness ==
  /\ DecodeReturned
  /\ text = <<>>
  /\ decRet.tag = "EmptyInput"

\* C9: from a successful new on, through every encode and decode call, the
\* base is the number of characters of the key, positions_to_characters lists
\* the key in order, characters_to_positions maps exactly the key's
\* characters and is the inverse of positions_to_characters; no call changes
\* the base or a table.
TableInv ==
  /\ length = Len(key)
  /\ length >= 2
  /\ Len(positions_to_characters) = length
  /\ \A i \in 0..(length - 1) : positions_to_characters[i + 1] = key[i + 1]
  /\ DOMAIN characters_to_positions = Range(key)
  /\ \A i \in 0..(length - 1) :
       characters_to_positions[positions_to_characters[i + 1]] = i

C9_CodecTables ==
  /\ [](status = "Ok" => TableInv)
  /\ [][status = "Ok" => UNCHANGED <<key, status, codec>>]_vars

C9_Witness ==
  /\ status = "Ok"
  /\ length = 3
  /\ DecodeReturned
  /\ decRet.tag = "Overflow"

\* C10: on a canonical string of key characters (first character not the
\* zero-digit, or the single zero-digit), decode fails with Overflow exactly
\* when the value of the string exceeds the largest u64; the checked power of
\* the leading position does not overflow when the value fits.
C10_OverflowExact ==
  (DecodeReturned /\ text # <<>> /\ AllKeyChars(text) /\ Canonical(text))
  => /\ (decRet.tag = "Overflow" <=> ValueOf(text) > U64_MAX)
     /\ (ValueOf(text) <= U64_MAX
           => CheckedPow(length, Len(text) - 1) # None)

C10_Witness ==
  /\ DecodeReturned
  /\ AllKeyChars(text)
  /\ Canonical(text)
  /\ Len(text) > 1
  /\ ValueOf(text) = U64_MAX
  /\ decRet = Ok(U64_MAX)

====
